---- MODULE Spec2Model ----
(***************************************************************************)
(* The IDCardScanner widget (hansheng0512/id-card-capture) as a state      *)
(* machine.  Two variants of the component are modelled:                   *)
(*   "A"  src/src/components/IDCardScanner/index.tsx                       *)
(*   "B"  src/unnamed/part_000 (sharpening, preview, mobile/desktop view)  *)
(* The state is the component's hook state and refs, the video and canvas  *)
(* elements behind the refs, the camera streams handed out by              *)
(* getUserMedia, the pending animation-frame callbacks, the pending        *)
(* getUserMedia requests and the sendToBackend calls waiting on their      *)
(* timer.  Every handler is an operator from a state record to a state     *)
(* record; an action applies one handler.                                  *)
(***************************************************************************)
EXTENDS Integers, Sequences, FiniteSets, TLC

VARIABLES
    variant,            \* "A" or "B": which source file is running
    camera,             \* the frame size the device's camera delivers
    mounted,            \* the component is mounted
    isCapturing,        \* useState(false)
    isProcessing,       \* useState(false)
    isMobileView,       \* useState(false), variant B
    capturedImage,      \* useState(null), variant B
    isPreviewVisible,   \* useState(false), variant B
    rendered,           \* the hook values of the last committed render
    effects,            \* the passive effects React still has to run:
                        \* "none", "update" (of a render), "unmount"
    syncUpdate,         \* a click handler has set state: React renders
                        \* before the browser runs another task
    videoRef,           \* videoRef.current and canvasRef.current are set
    srcObject,          \* videoRef.current.srcObject (Null or a stream id)
    videoSize,          \* videoRef.current.videoWidth / videoHeight
    onloadedmetadata,   \* videoRef.current.onloadedmetadata is set
    canvas,             \* canvasRef.current: width, height, what is drawn
    animationFrameId,   \* animationFrameId.current (Null or a callback id)
    rafPending,         \* callbacks requestAnimationFrame holds
    live,               \* streams whose track is not stopped
    pendingStarts,      \* startCamera calls awaiting getUserMedia
    uploads,            \* sendToBackend calls awaiting their timer (FIFO)
    drawn,              \* sharpenImage: the bytes drawImage put on the canvas
    imageData,          \* sharpenImage: imageData.data
    emitted,            \* notifications raised by the last step
    threw,              \* the last step ended in an uncaught exception
    last                \* the last step taken

vars == <<variant, camera, mounted, isCapturing, isProcessing, isMobileView,
          capturedImage, isPreviewVisible, rendered, effects, syncUpdate,
          videoRef, srcObject, videoSize, onloadedmetadata, canvas,
          animationFrameId,
          rafPending, live, pendingStarts, uploads, drawn, imageData, emitted,
          threw, last>>

----------------------------------------------------------------------------
(* Bounds of the model *)

MaxStreams == 2     \* streams live or requested at once
MaxUploads == 2     \* sendToBackend calls in flight at once
MaxRaf == 2         \* animation-frame callbacks pending at once
MaxPixels == 3      \* pixels of a frame given to sharpenImage

Null == 0

Variants == {"A", "B"}

\* Frame sizes a device's camera delivers once metadata has loaded.
FrameSizes == {[w |-> 1280, h |-> 720], [w |-> 640, h |-> 480]}

\* videoWidth / videoHeight before metadata has loaded.
NoFrame == [w |-> 0, h |-> 0]

----------------------------------------------------------------------------
(* IEEE-754 double arithmetic on the guideline fractions.                  *)
(* A double is [m, e]: m a sequence of bits, least significant first, and  *)
(* the value is m * 2^e.                                                   *)

MantissaBits == 53

RECURSIVE BitsToInt(_)
BitsToInt(bits) ==
    IF bits = <<>> THEN 0 ELSE Head(bits) + 2 * BitsToInt(Tail(bits))

RECURSIVE IntToBits(_)
IntToBits(n) ==
    IF n = 0 THEN <<>> ELSE <<n % 2>> \o IntToBits(n \div 2)

RECURSIVE StripHigh(_)
StripHigh(bits) ==
    IF bits = <<>> THEN <<>>
    ELSE IF bits[Len(bits)] = 0 THEN StripHigh(SubSeq(bits, 1, Len(bits) - 1))
    ELSE bits

RECURSIVE Increment(_)
Increment(bits) ==
    IF bits = <<>> THEN <<1>>
    ELSE IF Head(bits) = 0 THEN <<1>> \o Tail(bits)
    ELSE <<0>> \o Increment(Tail(bits))

Zeros(n) == [i \in 1..n |-> 0]

\* Round to nearest, ties to even, keeping MantissaBits significant bits.
RoundDouble(bits, e) ==
    LET b == StripHigh(bits)
        d == Len(b) - MantissaBits
    IN  IF d <= 0 THEN [m |-> b, e |-> e]
        ELSE LET kept   == SubSeq(b, d + 1, Len(b))
                 guard  == b[d]
                 sticky == \E i \in 1..(d - 1) : b[i] = 1
                 up     == guard = 1 /\ (sticky \/ kept[1] = 1)
             IN  [m |-> IF up THEN Increment(kept) ELSE kept, e |-> e + d]

\* The double nearest to n/10, as the literal 0.n is read (n in 1..9).
RECURSIVE TenthBits(_, _, _)
TenthBits(r, k, started) ==
    \* binary expansion of r/10, most significant bit first: k significant
    \* bits, then the remainder, then the number of leading zero bits
    IF k = 0 THEN [bits |-> <<>>, rem |-> r, zeros |-> 0]
    ELSE LET bit  == IF 2 * r >= 10 THEN 1 ELSE 0
             r2   == 2 * r - 10 * bit
         IN  IF bit = 0 /\ ~started
             THEN LET t == TenthBits(r2, k, FALSE)
                  IN  [t EXCEPT !.zeros = @ + 1]
             ELSE LET t == TenthBits(r2, k - 1, TRUE)
                  IN  [t EXCEPT !.bits = <<bit>> \o @]

Reverse(s) == [i \in 1..Len(s) |-> s[Len(s) + 1 - i]]

Tenth(n) ==
    LET t    == TenthBits(n, MantissaBits, FALSE)
        kept == Reverse(t.bits)
        up   == 2 * t.rem > 10 \/ (2 * t.rem = 10 /\ kept[1] = 1)
    IN  [m |-> IF up THEN Increment(kept) ELSE kept,
         e |-> 0 - (t.zeros + MantissaBits)]

RECURSIVE MulBits(_, _, _)
MulBits(bits, k, carry) ==
    IF bits = <<>> THEN IntToBits(carry)
    ELSE LET t == Head(bits) * k + carry
         IN  <<t % 2>> \o MulBits(Tail(bits), k, t \div 2)

\* fraction * pixels, as one double multiplication
Times(d, k) == RoundDouble(MulBits(d.m, k, 0), d.e)

RECURSIVE SubBits(_, _, _)
SubBits(a, b, borrow) ==
    IF a = <<>> THEN <<>>
    ELSE LET y == (IF b = <<>> THEN 0 ELSE Head(b)) + borrow
             t == Head(a) - y
         IN  <<t % 2>> \o SubBits(Tail(a), IF b = <<>> THEN <<>> ELSE Tail(b),
                                   IF t < 0 THEN 1 ELSE 0)

\* a - b for doubles a >= b >= 0
Minus(a, b) ==
    LET e  == IF a.e < b.e THEN a.e ELSE b.e
        am == Zeros(a.e - e) \o a.m
        bm == Zeros(b.e - e) \o b.m
    IN  RoundDouble(SubBits(am, bm, 0), e)

\* Conversion of a non-negative double to a WebIDL long: truncation.
ToLong(d) ==
    IF d.e >= 0 THEN BitsToInt(Zeros(d.e) \o d.m)
    ELSE IF 0 - d.e >= Len(d.m) THEN 0
    ELSE BitsToInt(SubSeq(d.m, 1 - d.e, Len(d.m)))

----------------------------------------------------------------------------
(* The guideline rectangle and the crop region *)

\* guideline, in tenths of the frame: left, right, top, bottom
guideline(v) ==
    IF v = "A" THEN [left |-> 2, right |-> 8, top |-> 2, bottom |-> 8]
    ELSE [left |-> 1, right |-> 9, top |-> 3, bottom |-> 7]

\* actualGuideline, width and height of captureImage, as doubles
actualGuideline(v, size) ==
    LET g == guideline(v)
    IN  [topLeftX    |-> Times(Tenth(g.left), size.w),
         topLeftY    |-> Times(Tenth(g.top), size.h),
         topRightX   |-> Times(Tenth(g.right), size.w),
         bottomLeftY |-> Times(Tenth(g.bottom), size.h)]

\* The arguments of getImageData(x, y, width, height) after their conversion
\* to long, which are also the dimensions croppedCanvas is given.
CropCalc(v, size) ==
    LET a == actualGuideline(v, size)
    IN  [x |-> ToLong(a.topLeftX),
         y |-> ToLong(a.topLeftY),
         w |-> ToLong(Minus(a.topRightX, a.topLeftX)),
         h |-> ToLong(Minus(a.bottomLeftY, a.topLeftY))]

CropTable ==
    [v \in Variants |-> [size \in FrameSizes \cup {NoFrame} |-> CropCalc(v, size)]]

CropRect(v, size) == CropTable[v][size]

----------------------------------------------------------------------------
(* sharpenImage, on the bytes of imageData.data (r, g, b, a per pixel).    *)
(* Index i of the source is index i + 1 here.                              *)

\* Channel values of the frames tried: a dark and a saturated one.
Bytes == {51, 255}

\* The frames tried: one to MaxPixels pixels.
Buffers == UNION {[1..(4 * n) -> Bytes] : n \in 1..MaxPixels}

\* Storing a number in a Uint8ClampedArray: clamp to 0..255, round to the
\* nearest integer, ties to even.  The number is given in halves.
ToUint8Clamp(halves) ==
    IF halves <= 0 THEN 0
    ELSE IF halves >= 2 * 255 THEN 255
    ELSE LET f == halves \div 2
         IN  IF halves % 2 = 0 \/ f % 2 = 0 THEN f ELSE f + 1

\* v + (v - prev) * 0.5, in halves
Sharpened(v, prev) == 2 * v + (v - prev)

\* The loop of sharpenImage from source index i on.
RECURSIVE sharpenLoop(_, _)
sharpenLoop(d, i) ==
    IF i >= Len(d) THEN d
    ELSE LET r  == d[i + 1]
             g  == d[i + 2]
             b  == d[i + 3]
             d1 == [d  EXCEPT ![i + 1] = ToUint8Clamp(Sharpened(r, d[i - 3]))]
             d2 == [d1 EXCEPT ![i + 2] = ToUint8Clamp(Sharpened(g, d1[i - 2]))]
             d3 == [d2 EXCEPT ![i + 3] = ToUint8Clamp(Sharpened(b, d2[i - 1]))]
         IN  sharpenLoop(d3, i + 4)

\* A pass that sharpens the alpha channel like the colours.
RECURSIVE sharpenLoopWithAlpha(_, _)
sharpenLoopWithAlpha(d, i) ==
    IF i >= Len(d) THEN d
    ELSE sharpenLoopWithAlpha(
            [k \in 1..Len(d) |->
                IF k \in (i + 1)..(i + 4)
                THEN ToUint8Clamp(Sharpened(d[k], d[k - 4])) ELSE d[k]],
            i + 4)

sharpenImageWithAlpha(d) == sharpenLoopWithAlpha(d, 4)

\* A pass that reads the previous pixel from the frame as it was drawn.
sharpenImageFromInput(d) ==
    [k \in 1..Len(d) |->
        IF k > 4 /\ k % 4 # 0
        THEN ToUint8Clamp(Sharpened(d[k], d[k - 4])) ELSE d[k]]

\* data after sharpenImage, for data as getImageData returned it
sharpenImage(d) == sharpenLoop(d, 4)

----------------------------------------------------------------------------
(* Values *)

NoImage == [w |-> 0, h |-> 0, frame |-> "none", sharpened |-> FALSE]

\* <canvas ref={canvasRef}>: a canvas element as the browser creates it
DefaultCanvas == [w |-> 300, h |-> 150, content |-> "blank"]

\* What the video shows when a frame is taken: two contents tell two
\* captures apart.
Frames == {"frame1", "frame2"}
RafIds == 1..(MaxRaf + 1)
StreamIds == 1..MaxStreams

\* The hook values a render reads.
StateView(s) ==
    [isCapturing      |-> s.isCapturing,
     isProcessing     |-> s.isProcessing,
     isMobileView     |-> s.isMobileView,
     capturedImage    |-> s.capturedImage,
     isPreviewVisible |-> s.isPreviewVisible]

\* The JSX branch that holds <video> and <canvas>.
ShowsVideo(v, view) == v = "A" \/ view.isMobileView

\* The program state as one record: what a handler reads and writes.
Cur ==
    [variant |-> variant, camera |-> camera, mounted |-> mounted,
     isCapturing |-> isCapturing, isProcessing |-> isProcessing,
     isMobileView |-> isMobileView, capturedImage |-> capturedImage,
     isPreviewVisible |-> isPreviewVisible,
     rendered |-> rendered, effects |-> effects, syncUpdate |-> syncUpdate,
     videoRef |-> videoRef,
     srcObject |-> srcObject,
     videoSize |-> videoSize, onloadedmetadata |-> onloadedmetadata,
     canvas |-> canvas, animationFrameId |-> animationFrameId,
     rafPending |-> rafPending, live |-> live,
     pendingStarts |-> pendingStarts, uploads |-> uploads,
     emitted |-> <<>>, threw |-> FALSE]

\* The step `op` leaves the program in state t.
Becomes(t, op) ==
    /\ variant' = t.variant
    /\ camera' = t.camera
    /\ mounted' = t.mounted
    /\ isCapturing' = t.isCapturing
    /\ isProcessing' = t.isProcessing
    /\ isMobileView' = t.isMobileView
    /\ capturedImage' = t.capturedImage
    /\ isPreviewVisible' = t.isPreviewVisible
    /\ rendered' = t.rendered
    /\ effects' = t.effects
    /\ syncUpdate' = t.syncUpdate
    /\ videoRef' = t.videoRef
    /\ srcObject' = t.srcObject
    /\ videoSize' = t.videoSize
    /\ onloadedmetadata' = t.onloadedmetadata
    /\ canvas' = t.canvas
    /\ animationFrameId' = t.animationFrameId
    /\ rafPending' = t.rafPending
    /\ live' = t.live
    /\ pendingStarts' = t.pendingStarts
    /\ uploads' = t.uploads
    /\ emitted' = t.emitted
    /\ threw' = t.threw
    /\ last' = op
    /\ UNCHANGED <<drawn, imageData>>

----------------------------------------------------------------------------
(* Platform primitives *)

\* A state setter of useState: a setter of an unmounted component does nothing.
setIsCapturing(s, b) == IF s.mounted THEN [s EXCEPT !.isCapturing = b] ELSE s
setIsProcessing(s, b) == IF s.mounted THEN [s EXCEPT !.isProcessing = b] ELSE s
setIsMobileView(s, b) == IF s.mounted THEN [s EXCEPT !.isMobileView = b] ELSE s
setCapturedImage(s, img) == IF s.mounted THEN [s EXCEPT !.capturedImage = img] ELSE s
setIsPreviewVisible(s, b) == IF s.mounted THEN [s EXCEPT !.isPreviewVisible = b] ELSE s

\* message.error / message.success
Notify(s, note) == [s EXCEPT !.emitted = Append(@, note)]

\* An id requestAnimationFrame has not handed out among those still known.
FreshRafId(s) ==
    CHOOSE id \in RafIds :
        /\ id \notin s.rafPending \cup {s.animationFrameId}
        /\ \A other \in RafIds :
              other \notin s.rafPending \cup {s.animationFrameId} => id <= other

\* animationFrameId.current = requestAnimationFrame(drawGuideline)
requestAnimationFrame(s) ==
    LET id == FreshRafId(s)
    IN  [s EXCEPT !.rafPending = @ \cup {id}, !.animationFrameId = id]

\* cancelAnimationFrame(id)
cancelAnimationFrame(s, id) == [s EXCEPT !.rafPending = @ \ {id}]

\* Room for one more pending callback within the model's bound.
RafRoom == Cardinality(rafPending) < MaxRaf

\* The <video> and <canvas> elements leave the page: the refs are cleared.
\* A stream the video element held keeps its tracks.
DetachRefs(s) ==
    [s EXCEPT !.videoRef = FALSE, !.srcObject = Null, !.videoSize = NoFrame,
              !.onloadedmetadata = FALSE, !.canvas = DefaultCanvas]

\* Fresh <video> and <canvas> elements are put on the page.
AttachRefs(s) ==
    [s EXCEPT !.videoRef = TRUE, !.srcObject = Null, !.videoSize = NoFrame,
              !.onloadedmetadata = FALSE, !.canvas = DefaultCanvas]

\* context.getImageData(x, y, sw, sh) raises IndexSizeError for an empty region
getImageDataThrows(sw, sh) == sw = 0 \/ sh = 0

----------------------------------------------------------------------------
(* The component's functions, as functions of the state *)

\* useState(false): the isCapturing the first render's closures hold
InitialIsCapturing == FALSE

\* drawGuideline that stands still while a capture is being processed.
drawGuidelineWaitsForUpload(s, cap, ctxOk) ==
    IF ~cap \/ ~s.videoRef \/ s.isProcessing THEN s
    ELSE IF ~ctxOk \/ s.videoSize.w = 0 THEN requestAnimationFrame(s)
    ELSE requestAnimationFrame(
            [s EXCEPT !.canvas = [w |-> s.videoSize.w, h |-> s.videoSize.h,
                                  content |-> "guide"]])

\* drawGuideline of a render that saw isCapturing = cap.  ctxOk: the canvas
\* hands out its 2d context.
drawGuideline(s, cap, ctxOk) ==
    IF ~cap \/ ~s.videoRef THEN s
    ELSE IF ~ctxOk \/ s.videoSize.w = 0 THEN requestAnimationFrame(s)
    ELSE requestAnimationFrame(
            [s EXCEPT !.canvas = [w |-> s.videoSize.w, h |-> s.videoSize.h,
                                  content |-> "guide"]])

\* stopCamera without its guard on the video element and its stream:
\* reading srcObject of null, or getTracks of null, raises a TypeError.
stopCameraUnguarded(s) ==
    IF s.videoRef /\ s.srcObject # Null
    THEN LET s1 == setIsCapturing(
                     [s EXCEPT !.live = @ \ {s.srcObject}, !.srcObject = Null,
                               !.videoSize = NoFrame], FALSE)
         IN  IF s1.animationFrameId # Null
             THEN [cancelAnimationFrame(s1, s1.animationFrameId)
                      EXCEPT !.animationFrameId = Null]
             ELSE s1
    ELSE [s EXCEPT !.threw = TRUE]

\* stopCamera that also drops the uploads in flight.
stopCameraAbortsUploads(s) ==
    LET s1 == IF s.videoRef /\ s.srcObject # Null
              THEN setIsCapturing(
                     [s EXCEPT !.live = @ \ {s.srcObject}, !.srcObject = Null,
                               !.videoSize = NoFrame], FALSE)
              ELSE s
        s2 == [s1 EXCEPT !.uploads = <<>>]
    IN  IF s2.animationFrameId # Null
        THEN [cancelAnimationFrame(s2, s2.animationFrameId)
                 EXCEPT !.animationFrameId = Null]
        ELSE s2

stopCamera(s) ==
    LET s1 == IF s.videoRef /\ s.srcObject # Null
              THEN setIsCapturing(
                     [s EXCEPT !.live = @ \ {s.srcObject}, !.srcObject = Null,
                               !.videoSize = NoFrame], FALSE)
              ELSE s
    IN  IF s1.animationFrameId # Null
        THEN [cancelAnimationFrame(s1, s1.animationFrameId)
                 EXCEPT !.animationFrameId = Null]
        ELSE s1

\* startCamera up to its await: one more getUserMedia request is pending
startCamera(s) == [s EXCEPT !.pendingStarts = @ + 1]

\* The stream getUserMedia returns: one that is not among the live ones.
NewStream(s) ==
    CHOOSE id \in StreamIds :
        /\ id \notin s.live
        /\ \A other \in StreamIds : other \notin s.live => id <= other

\* startCamera after getUserMedia has returned a stream
startCameraResolved(s) ==
    LET stream == NewStream(s)
        s1 == [s EXCEPT !.pendingStarts = @ - 1, !.live = @ \cup {stream}]
    IN  IF s1.videoRef
        THEN [setIsCapturing([s1 EXCEPT !.srcObject = stream,
                                        !.videoSize = NoFrame], TRUE)
                 EXCEPT !.onloadedmetadata = TRUE]
        ELSE s1

\* A catch block that marks the session active all the same.
startCameraRejectedActivates(s) ==
    setIsCapturing(Notify([s EXCEPT !.pendingStarts = @ - 1], "cameraError"),
                   TRUE)

\* startCamera after getUserMedia has failed: the catch block
startCameraRejected(s) ==
    Notify([s EXCEPT !.pendingStarts = @ - 1], "cameraError")

\* sendToBackend up to its await
sendToBackend(s, base64Image) ==
    [s EXCEPT !.uploads = Append(@, base64Image)]

\* A success path that notifies but leaves the camera running.
sendToBackendResolvedKeepsSession(s) ==
    setIsProcessing(Notify([s EXCEPT !.uploads = Tail(@)], "uploadSuccess"),
                    FALSE)

\* sendToBackend after the awaited call has settled well
sendToBackendResolved(s) ==
    setIsProcessing(
        stopCamera(Notify([s EXCEPT !.uploads = Tail(@)], "uploadSuccess")),
        FALSE)

\* A catch block that also stops the camera.
sendToBackendRejectedStops(s) ==
    setIsProcessing(
        stopCamera(Notify([s EXCEPT !.uploads = Tail(@)], "uploadError")),
        FALSE)

\* sendToBackend's catch and finally blocks.  The timer promise the source
\* awaits is settled by resolve alone, so no step of Next runs them; they run
\* only when the awaited call is one that can fail (UploadFails).
sendToBackendRejected(s) ==
    setIsProcessing(Notify([s EXCEPT !.uploads = Tail(@)], "uploadError"), FALSE)

\* captureImage that asks for the context after it has resized the canvas.
captureImageResizesFirst(s, ctxOk, croppedOk, frame) ==
    IF ~s.videoRef THEN s
    ELSE
    LET s1   == setIsProcessing(s, TRUE)
        size == s.videoSize
        s2   == [s1 EXCEPT !.canvas =
                    [w |-> size.w, h |-> size.h,
                     content |-> IF size.w = 0 \/ size.h = 0 \/ ~ctxOk
                                 THEN "blank" ELSE "frame"]]
        crop == CropRect(s.variant, size)
        base64Image == [w |-> crop.w, h |-> crop.h, frame |-> frame,
                        sharpened |-> s.variant = "B"]
    IN  IF ~ctxOk
        THEN setIsProcessing(Notify(s2, "contextError"), FALSE)
        ELSE IF s.variant = "B" /\ getImageDataThrows(size.w, size.h)
        THEN [s2 EXCEPT !.threw = TRUE]
        ELSE IF getImageDataThrows(crop.w, crop.h)
        THEN [s2 EXCEPT !.threw = TRUE]
        ELSE IF ~croppedOk
        THEN s2
        ELSE sendToBackend(
                IF s.variant = "B" THEN setCapturedImage(s2, base64Image) ELSE s2,
                base64Image)

\* captureImage.  ctxOk, croppedOk: the canvas and the cropped canvas hand out
\* their 2d context; frame: what the video shows.
captureImage(s, ctxOk, croppedOk, frame) ==
    IF ~s.videoRef THEN s
    ELSE
    LET s1   == setIsProcessing(s, TRUE)
        size == s.videoSize
        s2   == [s1 EXCEPT !.canvas =
                    [w |-> size.w, h |-> size.h,
                     content |-> IF size.w = 0 \/ size.h = 0 THEN "blank"
                                 ELSE "frame"]]
        crop == CropRect(s.variant, size)
        base64Image == [w |-> crop.w, h |-> crop.h, frame |-> frame,
                        sharpened |-> s.variant = "B"]
    IN  IF ~ctxOk
        THEN setIsProcessing(Notify(s1, "contextError"), FALSE)
        ELSE IF s.variant = "B" /\ getImageDataThrows(size.w, size.h)
        THEN [s2 EXCEPT !.threw = TRUE]                  \* in sharpenImage
        ELSE IF getImageDataThrows(crop.w, crop.h)
        THEN [s2 EXCEPT !.threw = TRUE]
        ELSE IF ~croppedOk
        THEN s2
        ELSE sendToBackend(
                IF s.variant = "B" THEN setCapturedImage(s2, base64Image) ELSE s2,
                base64Image)

showPreview(s) == setIsPreviewVisible(s, TRUE)

\* Closing the preview also discards the image.
hidePreviewDiscards(s) ==
    setCapturedImage(setIsPreviewVisible(s, FALSE), NoImage)

hidePreview(s) == setIsPreviewVisible(s, FALSE)

\* handleResize: mobile is window.innerWidth <= 768
handleResize(s, mobile) == setIsMobileView(s, mobile)

\* An onloadedmetadata that calls the drawGuideline of the latest render.
onLoadedMetadataOfLatestRender(s, ctxOk) ==
    drawGuideline(s, s.rendered.isCapturing, ctxOk)

\* videoRef.current.onloadedmetadata, set by the first render's startCamera
onLoadedMetadata(s, ctxOk) == drawGuideline(s, InitialIsCapturing, ctxOk)

\* The cleanup of the effect that draws the guideline
drawEffectCleanup(s) ==
    IF s.animationFrameId # Null
    THEN [cancelAnimationFrame(s, s.animationFrameId)
             EXCEPT !.animationFrameId = Null]
    ELSE s

\* The effect that draws the guideline, in a render that saw isCapturing = cap
drawEffect(s, cap, ctxOk) ==
    IF cap THEN drawGuideline(s, cap, ctxOk) ELSE s

\* A render is committed: the JSX branch is put on the page and the refs
\* follow it.  The effects of the render are passive (useEffect): React runs
\* them in a later task (drawGuideline is new in every render, so the draw
\* effect is due after every render).
render(s) ==
    LET view == StateView(s)
        s1 == [s EXCEPT !.rendered = view, !.effects = "update"]
    IN  IF ShowsVideo(s.variant, view) = s.videoRef THEN s1
        ELSE IF s.videoRef THEN DetachRefs(s1) ELSE AttachRefs(s1)

\* React runs the passive effects of the committed render: the cleanup of the
\* previous draw effect, then the draw effect, whose closure holds the
\* isCapturing that render saw.
passiveEffects(s, ctxOk) ==
    drawEffect(drawEffectCleanup([s EXCEPT !.effects = "none"]),
               s.rendered.isCapturing, ctxOk)

\* An onClick handler has run.  State it has set is rendered in React's
\* synchronous flush for the event (at the end of the event, or in the
\* microtask after it): before the browser runs another task.
onClick(s, t) ==
    [t EXCEPT !.syncUpdate = s.syncUpdate \/ StateView(t) # StateView(s)]

\* React renders: the passive effects still due run first, then the render
\* is committed; the effects of the new commit are left for later.
renderWork(s, ctxOk) ==
    LET s1 == IF s.effects = "update" THEN passiveEffects(s, ctxOk) ELSE s
    IN  IF StateView(s) = s.rendered THEN s1 ELSE render(s1)

\* The synchronous flush for a click
flushSync(s, ctxOk) == renderWork([s EXCEPT !.syncUpdate = FALSE], ctxOk)

\* The cleanups of an unmount: the draw effect's, then () => stopCamera()
unmountCleanups(s) ==
    stopCamera(drawEffectCleanup([s EXCEPT !.effects = "none"]))

\* The component is removed.  refsFirst: React removes the elements and clears
\* the refs in the commit and runs the effect cleanups in a later task
\* (React 17 and later); otherwise the cleanups run within the commit, before
\* the refs are cleared (React 16).
unmount(s, refsFirst) ==
    LET s0 == [s EXCEPT !.mounted = FALSE]
    IN  IF refsFirst
        THEN DetachRefs([s0 EXCEPT !.effects = "unmount"])
        ELSE DetachRefs(unmountCleanups(s0))

----------------------------------------------------------------------------
(* What the last render put on the page *)

VideoShown == mounted /\ ShowsVideo(variant, rendered)

\* {!isCapturing ? <Button onClick={startCamera}> : ...}
StartButton == VideoShown /\ ~rendered.isCapturing

\* <Button onClick={stopCamera} disabled={isProcessing}>
CancelButton == VideoShown /\ rendered.isCapturing /\ ~rendered.isProcessing

\* <Button onClick={captureImage} disabled={isProcessing}>
CaptureButton == VideoShown /\ rendered.isCapturing /\ ~rendered.isProcessing

\* {capturedImage && <Button onClick={showPreview}>}
PreviewButton ==
    /\ variant = "B" /\ VideoShown /\ rendered.isCapturing
    /\ rendered.capturedImage # NoImage

\* <Modal visible={isPreviewVisible} onCancel={hidePreview}>
PreviewModal == variant = "B" /\ VideoShown /\ rendered.isPreviewVisible

----------------------------------------------------------------------------
(* Initial state: the component is mounted and has rendered; in variant B  *)
(* the first handleResize has run.                                         *)

Init ==
    /\ variant \in Variants
    /\ camera \in FrameSizes
    /\ mounted = TRUE
    /\ isCapturing = FALSE
    /\ isProcessing = FALSE
    /\ isMobileView \in (IF variant = "B" THEN BOOLEAN ELSE {FALSE})
    /\ capturedImage = NoImage
    /\ isPreviewVisible = FALSE
    /\ rendered = [isCapturing |-> FALSE, isProcessing |-> FALSE,
                   isMobileView |-> isMobileView, capturedImage |-> NoImage,
                   isPreviewVisible |-> FALSE]
    /\ effects = "none"
    /\ syncUpdate = FALSE
    /\ videoRef = ShowsVideo(variant, rendered)
    /\ srcObject = Null
    /\ videoSize = NoFrame
    /\ onloadedmetadata = FALSE
    /\ canvas = DefaultCanvas
    /\ animationFrameId = Null
    /\ rafPending = {}
    /\ live = {}
    /\ pendingStarts = 0
    /\ uploads = <<>>
    /\ drawn = <<>>
    /\ imageData = <<>>
    /\ emitted = <<>>
    /\ threw = FALSE
    /\ last = "init"

----------------------------------------------------------------------------
(* Actions *)

\* The user presses Start Camera.
ClickStart ==
    /\ StartButton
    /\ Cardinality(live) + pendingStarts < MaxStreams
    /\ Becomes(onClick(Cur, startCamera(Cur)), "startCamera")

\* getUserMedia hands a stream to the oldest waiting startCamera.
CameraGranted ==
    /\ ~syncUpdate
    /\ pendingStarts > 0
    /\ Becomes(startCameraResolved(Cur), "startCameraResolved")

\* getUserMedia fails: permission denied or no device.
CameraDenied ==
    /\ ~syncUpdate
    /\ pendingStarts > 0
    /\ Becomes(startCameraRejected(Cur), "startCameraRejected")

\* The video element has the metadata of its stream.
LoadedMetadata ==
    /\ ~syncUpdate
    /\ videoRef /\ srcObject # Null /\ videoSize = NoFrame
    /\ RafRoom
    /\ \E ctxOk \in BOOLEAN :
          LET s == [Cur EXCEPT !.videoSize = camera]
          IN  Becomes(IF onloadedmetadata THEN onLoadedMetadata(s, ctxOk) ELSE s,
                      "loadedmetadata")

\* The user presses Cancel.
ClickCancel ==
    /\ CancelButton
    /\ Becomes(onClick(Cur, stopCamera(Cur)), "stopCamera")

\* The user presses Capture ID Card.
ClickCapture ==
    /\ CaptureButton
    /\ Len(uploads) < MaxUploads
    /\ \E ctxOk \in BOOLEAN, croppedOk \in BOOLEAN, frame \in Frames :
          Becomes(onClick(Cur, captureImage(Cur, ctxOk, croppedOk, frame)),
                  "captureImage")

\* The timer the oldest sendToBackend awaits fires.
UploadSettles ==
    /\ ~syncUpdate
    /\ uploads # <<>>
    /\ Becomes(sendToBackendResolved(Cur), "sendToBackendResolved")

\* The browser runs a pending animation-frame callback: a drawGuideline of a
\* render that saw isCapturing = TRUE (no other drawGuideline schedules one).
AnimationFrame ==
    /\ ~syncUpdate
    /\ \E id \in rafPending, ctxOk \in BOOLEAN :
        Becomes(drawGuideline([Cur EXCEPT !.rafPending = @ \ {id}], TRUE, ctxOk),
                "animationFrame")

\* React renders the component after a state change that no click made and
\* commits the render; effects still due are run as the render starts.
Render ==
    /\ mounted
    /\ ~syncUpdate
    /\ StateView(Cur) # rendered
    /\ RafRoom
    /\ \E ctxOk \in BOOLEAN : Becomes(renderWork(Cur, ctxOk), "render")

\* React's synchronous flush for the clicks of the running task.
Flush ==
    /\ syncUpdate
    /\ RafRoom
    /\ \E ctxOk \in BOOLEAN : Becomes(flushSync(Cur, ctxOk), "flushSync")

\* React runs the passive effects of the last commit.  With a render due
\* they run as that render starts (Render), with no event of the page between
\* the two.
RunEffects ==
    /\ ~syncUpdate
    /\ effects = "update"
    /\ StateView(Cur) = rendered
    /\ RafRoom
    /\ \E ctxOk \in BOOLEAN : Becomes(passiveEffects(Cur, ctxOk), "passiveEffects")

\* React runs the effect cleanups of the unmounted component.
RunCleanups ==
    /\ ~syncUpdate
    /\ effects = "unmount"
    /\ Becomes(unmountCleanups(Cur), "unmountCleanups")

\* The window is resized (variant B listens until the cleanup of its resize
\* effect has removed the listener).
Resize ==
    /\ ~syncUpdate
    /\ variant = "B" /\ (mounted \/ effects = "unmount")
    /\ \E mobile \in BOOLEAN : Becomes(handleResize(Cur, mobile), "handleResize")

\* The user presses Preview Image.
ClickPreview ==
    /\ PreviewButton
    /\ Becomes(onClick(Cur, showPreview(Cur)), "showPreview")

\* The user closes the preview.
ClosePreview ==
    /\ PreviewModal
    /\ Becomes(onClick(Cur, hidePreview(Cur)), "hidePreview")

\* The component is removed from the page; effects still due are run before
\* the unmount starts.
Unmount ==
    /\ mounted
    /\ ~syncUpdate
    /\ effects = "none"
    /\ \E refsFirst \in BOOLEAN : Becomes(unmount(Cur, refsFirst), "unmount")

Next ==
    \/ ClickStart
    \/ CameraGranted
    \/ CameraDenied
    \/ LoadedMetadata
    \/ ClickCancel
    \/ ClickCapture
    \/ UploadSettles
    \/ AnimationFrame
    \/ Render
    \/ Flush
    \/ RunEffects
    \/ RunCleanups
    \/ Resize
    \/ ClickPreview
    \/ ClosePreview
    \/ Unmount

Spec == Init /\ [][Next]_vars

\* The browser and React do run what is due: timers fire, renders are
\* committed, pending frames are run.
FairSpec ==
    /\ Spec
    /\ WF_vars(UploadSettles)
    /\ WF_vars(Render)
    /\ WF_vars(Flush)
    /\ WF_vars(RunEffects)
    /\ WF_vars(RunCleanups)
    /\ WF_vars(AnimationFrame)

\* The widget with the upload call the mock stands in for: a request to the
\* backend, which may fail.  The oldest sendToBackend's awaited call rejects
\* and its catch and finally blocks run.
UploadFails ==
    /\ ~syncUpdate
    /\ uploads # <<>>
    /\ Becomes(sendToBackendRejected(Cur), "sendToBackendRejected")

BackendNext ==
    \/ Next
    \/ UploadFails

BackendSpec == Init /\ [][BackendNext]_vars

----------------------------------------------------------------------------
(* sharpenImage on its own: every frame of Buffers is given to the pass.   *)

\* captureImage of variant B has drawn a frame and getImageData has read it.
SharpenInit ==
    /\ variant = "B"
    /\ camera \in FrameSizes
    /\ mounted = TRUE
    /\ isCapturing = TRUE
    /\ isProcessing = TRUE
    /\ isMobileView = TRUE
    /\ capturedImage = NoImage
    /\ isPreviewVisible = FALSE
    /\ rendered = [isCapturing |-> TRUE, isProcessing |-> FALSE,
                   isMobileView |-> TRUE, capturedImage |-> NoImage,
                   isPreviewVisible |-> FALSE]
    /\ effects = "none"
    /\ syncUpdate = FALSE
    /\ videoRef = TRUE
    /\ srcObject = 1
    /\ videoSize = camera
    /\ onloadedmetadata = TRUE
    /\ canvas = [w |-> camera.w, h |-> camera.h, content |-> "frame"]
    /\ animationFrameId = 1
    /\ rafPending = {1}
    /\ live = {1}
    /\ pendingStarts = 0
    /\ uploads = <<>>
    /\ drawn \in Buffers
    /\ imageData = drawn
    /\ emitted = <<>>
    /\ threw = FALSE
    /\ last = "getImageData"

\* The loop runs and putImageData writes the result back.
SharpenPass ==
    /\ last = "getImageData"
    /\ imageData' = sharpenImage(imageData)
    /\ last' = "sharpenImage"
    /\ UNCHANGED <<variant, camera, mounted, isCapturing, isProcessing,
                   isMobileView, capturedImage, isPreviewVisible, rendered,
                   effects, syncUpdate, videoRef, srcObject, videoSize,
                   onloadedmetadata,
                   canvas,
                   animationFrameId, rafPending, live, pendingStarts, uploads,
                   drawn, emitted, threw>>

SharpenNext == SharpenPass

SharpenSpec == SharpenInit /\ [][SharpenNext]_vars

----------------------------------------------------------------------------
(* Properties *)

\* The last step ran stopCamera: Cancel, or the cleanups of an unmount.
Stopped ==
    \/ last \in {"stopCamera", "unmountCleanups"}
    \/ last = "unmount" /\ effects = "none"

\* A session is active: the mounted video element shows a stream.
SessionActive == mounted /\ videoRef /\ isCapturing /\ srcObject # Null

\* No session is active: no stream handle and isCapturing = false.
NoSession == srcObject = Null /\ ~isCapturing

\* C1: every capture() eventually leaves isProcessing false: while the widget
\* is on the page, isProcessing = true leads to isProcessing = false.
C1_ProcessingEnds ==
    (mounted /\ isProcessing) ~> (~isProcessing \/ ~mounted)

\* C2: after the component has been torn down (unmounted, its cleanups run)
\* no stream acquired by start() has a live track.
C2_NoLiveTrackAfterTeardown == (~mounted /\ effects = "none") => live = {}

\* C3: at most one acquired stream has live tracks.
C3_AtMostOneLiveStream == Cardinality(live) <= 1

\* C4: stop() invoked on the mounted widget while isCapturing = true leaves
\* the stream the video element held stopped, the handle null, no frame
\* callback pending, the token null and isCapturing false.
C4_StopEndsSession ==
    [][(last' \in {"stopCamera", "sendToBackendResolved"} /\ mounted /\ isCapturing)
         => /\ srcObject \notin live'
            /\ srcObject' = Null
            /\ rafPending' = {}
            /\ animationFrameId' = Null
            /\ ~isCapturing']_vars

\* C5: at most one upload is in flight at any time.
C5_OneUploadInFlight == Len(uploads) <= 1

\* C6: capture() with isCapturing = false is a no-op: isProcessing, the
\* capture surface, the captured image and the uploads are unchanged.
C6_CaptureNeedsSession ==
    [][(last' = "captureImage" /\ ~isCapturing)
         => /\ UNCHANGED <<isProcessing, canvas, capturedImage, uploads>>
            /\ ~threw']_vars

\* C7: a failed camera request ends startCamera without an exception, raises
\* exactly one failure notification and leaves isCapturing, the stream
\* handle, the streams and the frame callback as they were; Start Camera
\* stays available for a retry.
C7_DeniedLeavesStateUnchanged ==
    [][last' = "startCameraRejected"
         => /\ ~threw'
            /\ emitted' = <<"cameraError">>
            /\ UNCHANGED <<isCapturing, srcObject, live, animationFrameId,
                           rafPending, onloadedmetadata>>
            /\ (StartButton => StartButton')]_vars

\* C7 witness: a request has just been denied with no session active, and
\* Start Camera can be pressed again.
C7_Witness ==
    /\ last = "startCameraRejected"
    /\ emitted = <<"cameraError">>
    /\ ~isCapturing /\ srcObject = Null /\ live = {}
    /\ StartButton /\ pendingStarts = 0

C9_GrantedStartsSession ==
    [][/\ last' = "startCameraResolved"
          => /\ isCapturing'
             /\ srcObject' \in live' \ live
       /\ (last' = "passiveEffects" /\ rendered.isCapturing)
          => /\ animationFrameId' # Null
             /\ animationFrameId' \in rafPending']_vars

\* C10: each frame callback that runs while the session is active leaves a
\* new callback pending under the stored token; stopCamera and the cleanups
\* of a teardown leave no callback pending and the token null; and while the
\* session is inactive or the widget is torn down no callback is pending, so
\* none is run and no draw happens.
C10_LoopEndsWithSession ==
    /\ []((~isCapturing \/ (~mounted /\ effects = "none"))
            => (rafPending = {} /\ animationFrameId = Null))
    /\ [][/\ (last' = "animationFrame" /\ SessionActive)
             => (animationFrameId' # Null
                 /\ rafPending' = {animationFrameId'})
          /\ (Stopped' \/ last' = "sendToBackendResolved")
             => (rafPending' = {} /\ animationFrameId' = Null)]_vars

\* C11: in variant B a successful upload leaves the session as it was:
\* isCapturing stays true and the stream stays attached and live.
C11_SuccessKeepsSessionB ==
    [][(variant = "B" /\ last' = "sendToBackendResolved"
          /\ mounted /\ isCapturing /\ srcObject # Null)
         => /\ isCapturing'
            /\ srcObject' = srcObject
            /\ srcObject' \in live']_vars

\* C12: in variant A a successful upload leaves the widget idle: the stream
\* the video element held is stopped, the handle is null, no frame callback
\* is left, and isCapturing and isProcessing are false.
C12_SuccessEndsIdleA ==
    [][(variant = "A" /\ last' = "sendToBackendResolved" /\ mounted)
         => /\ srcObject \notin live'
            /\ srcObject' = Null
            /\ ~isCapturing'
            /\ ~isProcessing'
            /\ rafPending' = {} /\ animationFrameId' = Null
            /\ emitted' = <<"uploadSuccess">>]_vars

\* C12 witness: variant A was rendered capturing and processing (so Cancel
\* was disabled) and the upload of the captured frame has just succeeded.
C12_Witness ==
    /\ variant = "A" /\ mounted /\ last = "sendToBackendResolved"
    /\ rendered.isCapturing /\ rendered.isProcessing
    /\ canvas.content = "frame"
    /\ ~isCapturing /\ ~isProcessing /\ srcObject = Null /\ live = {}
    /\ uploads = <<>>

\* C13: with an upload call that can fail (BackendSpec), a failed upload
\* raises one failure notification, clears isProcessing and leaves
\* isCapturing, the stream handle, the live streams and the frame callback as
\* they were.
C13_FailureKeepsSession ==
    [][(last' = "sendToBackendRejected" /\ mounted)
         => /\ emitted' = <<"uploadError">>
            /\ ~isProcessing'
            /\ ~threw'
            /\ UNCHANGED <<isCapturing, srcObject, live, videoSize,
                           animationFrameId, rafPending, capturedImage>>]_vars

\* C13 witness: an upload has just failed with the session active, so that
\* the next render offers Capture again.
C13_Witness ==
    /\ last = "sendToBackendRejected" /\ mounted
    /\ emitted = <<"uploadError">>
    /\ rendered.isProcessing /\ ~isProcessing
    /\ isCapturing /\ videoRef /\ srcObject \in live /\ videoSize # NoFrame
    /\ rafPending # {}

\* C14: captureImage without a 2d context raises one error notification and
\* nothing else: no upload starts, nothing is thrown, the capture surface,
\* the captured image, isCapturing and the stream are as they were, and
\* isProcessing is false on return.
C14_NoContextAborts ==
    /\ [](videoRef =>
            \A croppedOk \in BOOLEAN, frame \in Frames :
                LET t == captureImage(Cur, FALSE, croppedOk, frame)
                IN  /\ t.emitted = <<"contextError">>
                    /\ ~t.threw
                    /\ ~t.isProcessing
                    /\ t.uploads = uploads
                    /\ t.canvas = canvas
                    /\ t.capturedImage = capturedImage
                    /\ t.isCapturing = isCapturing
                    /\ t.srcObject = srcObject /\ t.live = live)
    /\ [][(last' = "captureImage" /\ emitted' = <<"contextError">>)
            => /\ UNCHANGED <<canvas, capturedImage, isCapturing, srcObject,
                              live, videoSize, uploads>>
               /\ ~isProcessing'
               /\ ~threw']_vars

\* C14 witness: a capture of a running session has just ended with the
\* context error; the surface still holds the guide and no upload started.
C14_Witness ==
    /\ last = "captureImage" /\ emitted = <<"contextError">>
    /\ isCapturing /\ srcObject \in live /\ videoSize # NoFrame
    /\ canvas.content = "guide"
    /\ ~isProcessing /\ uploads = <<>>

\* C15: stopping the session (Cancel or the cleanups of a teardown) leaves the
\* uploads in flight as they are and no frame callback pending; each settle
\* takes exactly the oldest upload and, on the mounted widget, leaves
\* isProcessing false.
C15_StopKeepsUpload ==
    [][/\ Stopped'
          => /\ uploads' = uploads
             /\ rafPending' = {} /\ animationFrameId' = Null
       /\ last' = "sendToBackendResolved"
          => /\ uploads # <<>>
             /\ uploads' = Tail(uploads)
             /\ mounted => ~isProcessing']_vars

\* C15 witness: Cancel has stopped a session whose last render started the
\* guide loop, while an upload is in flight; the upload is still there.
C15_Witness ==
    /\ last = "stopCamera" /\ rendered.isCapturing
    /\ uploads # <<>> /\ isProcessing
    /\ ~isCapturing /\ srcObject = Null /\ live = {}
    /\ rafPending = {} /\ animationFrameId = Null

\* C16: the image a capture hands to the upload has the size of the guide
\* rectangle on the frame, (right - left) * W by (bottom - top) * H, cut at
\* the origin (left * W, top * H), for the W and H the video has at that
\* capture; for variant B at 1280x720 that is 1024x288 at (128, 216).
C16_CropIsGuideRegion ==
    LET g    == guideline(variant)
        crop == CropRect(variant, camera)
    IN  \A i \in DOMAIN uploads :
            /\ 10 * uploads[i].w = (g.right - g.left) * camera.w
            /\ 10 * uploads[i].h = (g.bottom - g.top) * camera.h
            /\ 10 * crop.x = g.left * camera.w
            /\ 10 * crop.y = g.top * camera.h

\* C17: the sharpening pass keeps the length of the buffer, the three colour
\* channels of the first pixel and the alpha channel of every pixel.
C17_SharpenKeepsFirstAndAlpha ==
    last = "sharpenImage"
        => /\ Len(imageData) = Len(drawn)
           /\ \A k \in 1..3 : imageData[k] = drawn[k]
           /\ \A k \in 1..Len(drawn) : k % 4 = 0 => imageData[k] = drawn[k]

\* C17 witness: the pass has run on a frame of several pixels whose alpha
\* values differ, and has changed a colour.
C17_Witness ==
    /\ last = "sharpenImage"
    /\ Len(drawn) >= 8 /\ drawn[4] # drawn[8]
    /\ imageData # drawn

\* C19 as claimed: every colour channel from the second pixel on is exactly
\* value + (value - previous) * 0.5, value and previous both taken from the
\* frame as it was before the pass.
C19_SharpenUsesInputFrame ==
    last = "sharpenImage"
        => \A k \in 5..Len(drawn) :
              k % 4 # 0 => 2 * imageData[k] = Sharpened(drawn[k], drawn[k - 4])

\* C19 as amended: every colour channel from the second pixel on is
\* value + (value - previous) * 0.5 stored as a byte (clamped to 0..255,
\* rounded to nearest, ties to even), value taken from the frame before the
\* pass and previous from the preceding pixel as the pass has left it.
C19_SharpenUsesSharpenedPrevious ==
    last = "sharpenImage"
        => \A k \in 5..Len(drawn) :
              k % 4 # 0 => imageData[k] =
                  ToUint8Clamp(Sharpened(drawn[k], imageData[k - 4]))

\* C19 witness: the pass has changed the second pixel, and the third pixel
\* differs from what the unchanged second pixel would have given.
C19_Witness ==
    /\ last = "sharpenImage"
    /\ Len(drawn) >= 12
    /\ \E k \in 9..11 :
          /\ imageData[k - 4] # drawn[k - 4]
          /\ imageData[k] # ToUint8Clamp(Sharpened(drawn[k], drawn[k - 4]))

\* C18: an upload in flight does not hold the render loop back.  captureImage
\* leaves the pending frame callback and its token alone; while the upload
\* is in flight and the session stays active and on the page as the last
\* render saw it, no step leaves the loop without a pending callback; and
\* every callback that runs in that time schedules the next one and, given a
\* context, draws the guide.
C18_LoopRunsDuringUpload ==
    [][/\ last' = "captureImage"
          => UNCHANGED <<rafPending, animationFrameId>>
       /\ (uploads # <<>> /\ uploads' # <<>> /\ rafPending # {}
             /\ SessionActive /\ SessionActive'
             /\ rendered.isCapturing /\ rendered'.isCapturing)
          => (rafPending' # {} /\ animationFrameId' \in rafPending')
       /\ (last' = "animationFrame" /\ uploads # <<>> /\ SessionActive)
          => /\ uploads' = uploads
             /\ rafPending' # {} /\ animationFrameId' \in rafPending'
             /\ canvas' = canvas \/ canvas'.content = "guide"]_vars

\* C18 witness: with the upload in flight and isProcessing rendered, a frame
\* callback has run, drawn the guide over the captured frame and left the
\* next callback pending.
C18_Witness ==
    /\ last = "animationFrame"
    /\ uploads # <<>> /\ isProcessing /\ rendered.isProcessing
    /\ SessionActive
    /\ canvas.content = "guide"
    /\ rafPending = {animationFrameId}

\* C20: in variant B a capture that gets as far as encoding starts exactly
\* one upload, of the image it encoded from the frame it was given, and
\* keeps that image as capturedImage; a capture that does not get that far
\* and every other step leave capturedImage as it was.
C20_CapturedImageIsLastEncoded ==
    /\ []((variant = "B" /\ videoRef /\ videoSize # NoFrame) =>
            \A frame \in Frames :
                LET t == captureImage(Cur, TRUE, TRUE, frame)
                IN  /\ Len(t.uploads) = Len(uploads) + 1
                    /\ SubSeq(t.uploads, 1, Len(uploads)) = uploads
                    /\ t.uploads[Len(t.uploads)].frame = frame
                    /\ t.capturedImage = t.uploads[Len(t.uploads)])
    /\ [][variant = "B" =>
            /\ (last' = "captureImage" /\ uploads' # uploads)
               => /\ Len(uploads') = Len(uploads) + 1
                  /\ SubSeq(uploads', 1, Len(uploads)) = uploads
                  /\ capturedImage' = uploads'[Len(uploads')]
            /\ (last' # "captureImage" \/ uploads' = uploads)
               => capturedImage' = capturedImage]_vars

\* C20 witness: a second capture has just replaced the image a render had
\* shown, and the new image is the one its upload carries.
C20_Witness ==
    /\ variant = "B" /\ last = "captureImage"
    /\ rendered.capturedImage # NoImage
    /\ capturedImage # rendered.capturedImage
    /\ uploads # <<>> /\ capturedImage = uploads[Len(uploads)]


\* C21: on the mounted widget isCapturing is true exactly when the video
\* element on the page holds a stream, so that stopCamera can always find
\* the stream of an active session.
C21_FlagMatchesStream ==
    mounted => (isCapturing <=> (videoRef /\ srcObject # Null))

\* C22: at most one frame callback is pending, and animationFrameId.current
\* is its id.
C22_OneCallbackUnderToken ==
    /\ Cardinality(rafPending) <= 1
    /\ rafPending # {} => rafPending = {animationFrameId}

\* C22 witness: with metadata loaded, the effects of the render that follows
\* a capture's isProcessing change have cancelled the pending callback and
\* drawn again: one callback is pending, under the token.
C22_Witness ==
    /\ last = "passiveEffects"
    /\ SessionActive /\ rendered.isCapturing /\ rendered.isProcessing
    /\ onloadedmetadata /\ videoSize # NoFrame
    /\ canvas.content = "guide"
    /\ rafPending = {animationFrameId}

====
